---------------------------- MODULE Spec2Model ----------------------------
(***************************************************************************)
(* A model of the TaskScheduler class of src/src/task-scheduler.ts: the    *)
(* Mongo collection of task documents, the scheduler instances (one per    *)
(* process) with their worker registry and polling timer, and the poll     *)
(* cycles and scheduleTask calls each instance has in flight.              *)
(*                                                                         *)
(* Time is counted in seconds on one clock shared by all processes.  A     *)
(* store operation is evaluated atomically at the instant it is issued     *)
(* (findOne, insertOne, updateOne, findOneAndUpdate are each one step);    *)
(* the awaits between two store operations of one handler are places       *)
(* where other handlers and other processes may take steps.  A store       *)
(* round trip is short against the clock's unit: the clock advances only   *)
(* while no handler is between two of its store operations (workers may    *)
(* run for any time).                                                      *)
(* An optional document field is a set: {} when absent, {v} when present.  *)
(*                                                                         *)
(* Spec runs two processes that each declare the task once; TimerSpec runs *)
(* one instance that declares and stops at will; FaultSpec runs one        *)
(* instance whose database may be missing or stop answering and whose      *)
(* schedule may not parse; ManySpec runs one instance that declares two    *)
(* tasks; RoundSpec runs that instance with quick workers on a clock that  *)
(* never stops, under the fairness of its timer.                           *)
(***************************************************************************)
EXTENDS Integers, Sequences, FiniteSets, TLC

\* ------------------------------------------------------------- bounds
\* The clock stops at MaxTime.
MaxTime == 4

\* Two processes share the collection; poll() is started by setInterval
\* whether or not the last invocation has returned, and each process may
\* have two invocations in flight.
Procs == {1, 2}
Slots == {1, 2}
Ids == {"task1"}
\* The ids of the instance that declares several tasks.
AllIds == {"task1", "task2"}

\* ---------------------------------------------------- program constants
\* processingTimeout is a public option (60 * 1000 ms by default); the
\* model runs it scaled down to a few seconds.
processingTimeout == 2
\* updateTask trims the executionLog once the claimed document held this
\* many entries.
LogLimit == 10
\* completeTask and releaseTask evaluate the schedule at now + 1 second.
OneSecond == 1

\* Schedules with a seconds field, firing when the second is a multiple
\* of 2, respectively of 3.
Schedules == {"*/2 * * * * *", "*/3 * * * * *"}

Period(cronSchedule) == IF cronSchedule = "*/2 * * * * *" THEN 2 ELSE 3

\* A schedule string cron-parser refuses.
Malformed == "every minute"
Parses(cronSchedule) == cronSchedule \in Schedules

\* What a worker returns: undefined or a string.
Outputs == {{}, {"done"}}
WorkerError == "worker failed"
ExpiredError == "Task expired or no longer exists"
\* The errors of getMongoCollection, of the driver and of cron-parser.
NoDatabaseError == "No database configured"
StoreError == "database unreachable"
DuplicateKeyError == "E11000 duplicate key error"
ParseError == "cron expression does not parse"

VARIABLES
    now,                \* the clock, in seconds
    store,              \* the collection: _id -> document
    taskWorkers,        \* taskWorkers[p]: the ids p has a worker for
    pollingIntervalId,  \* pollingIntervalId[p]: p's timer is set
    cycles,             \* cycles[p][k]: a poll() invocation of p
    calls,              \* calls[p]: a scheduleTask() invocation of p
    claims,             \* claims[i]: claims that obtained i at this instant
    lapsed,             \* some executor outlived its lease unsettled
    timers,             \* timers[p]: the interval timers of p that are live
    errors,             \* errors[p]: what p's errorHandler has been given
    uncaught,           \* uncaught[p]: rejections of poll() nobody handles
    databasePromise,    \* databasePromise[p]: p has a database configured
    reachable           \* the database answers

vars == <<now, store, taskWorkers, pollingIntervalId, cycles, calls, claims, lapsed,
          timers, errors, uncaught, databasePromise, reachable>>

\* ------------------------------------------------------------ cron-parser
\* parseExpression(cronSchedule, {currentDate}).next(): the first fire time
\* strictly after currentDate.
CronNext(cronSchedule, currentDate) ==
    LET period == Period(cronSchedule)
    IN  ((currentDate \div period) + 1) * period

\* ------------------------------------------------------------- documents
\* NewTask that makes the document due from the instant it is inserted.
NewTask_DueAtOnce(cronSchedule, nextTime) ==
    [cronSchedule |-> cronSchedule,
     nextScheduledTime |-> nextTime - Period(cronSchedule),
     receivedTime |-> {},
     lastErroredTime |-> {},
     lastCompletedTime |-> {},
     executionLog |-> <<>>]

\* The document scheduleTask inserts: no receivedTime, no executionLog.
NewTask(cronSchedule, nextTime) ==
    [cronSchedule |-> cronSchedule,
     nextScheduledTime |-> nextTime,
     receivedTime |-> {},
     lastErroredTime |-> {},
     lastCompletedTime |-> {},
     executionLog |-> <<>>]

\* ClaimMatches without its $or on receivedTime.
ClaimMatches_NoLease(id, doc, registered, t) ==
    /\ id \in registered
    /\ doc.nextScheduledTime < t

\* ClaimMatches comparing receivedTime with now, not with now - timeout.
ClaimMatches_NoTimeout(id, doc, registered, t) ==
    /\ id \in registered
    /\ doc.nextScheduledTime < t
    /\ \/ \E r \in doc.receivedTime : r < t
       \/ doc.receivedTime = {}

\* ClaimMatches with $lte in place of $lt on receivedTime.
ClaimMatches_Lte(id, doc, registered, t) ==
    /\ id \in registered
    /\ doc.nextScheduledTime < t
    /\ \/ \E r \in doc.receivedTime : r <= t - processingTimeout
       \/ doc.receivedTime = {}

\* ClaimMatches without the first branch of its $or: only a document with
\* no receivedTime is claimed.
ClaimMatches_UnleasedOnly(id, doc, registered, t) ==
    /\ id \in registered
    /\ doc.nextScheduledTime < t
    /\ doc.receivedTime = {}

\* ClaimMatches that passes over a document whose last run failed.
ClaimMatches_NeverErrored(id, doc, registered, t) ==
    /\ id \in registered
    /\ doc.nextScheduledTime < t
    /\ doc.lastErroredTime = {}
    /\ \/ \E r \in doc.receivedTime : r < t - processingTimeout
       \/ doc.receivedTime = {}

\* ClaimMatches without its $in on _id: any document of the collection.
ClaimMatches_AnyId(id, doc, registered, t) ==
    /\ doc.nextScheduledTime < t
    /\ \/ \E r \in doc.receivedTime : r < t - processingTimeout
       \/ doc.receivedTime = {}

\* The filter of receiveTask's findOneAndUpdate, on document doc of _id id,
\* with the registry of the polling process, evaluated at instant t.
ClaimMatches(id, doc, registered, t) ==
    /\ id \in registered
    /\ doc.nextScheduledTime < t
    /\ \/ \E r \in doc.receivedTime : r < t - processingTimeout
       \/ doc.receivedTime = {}

\* RenewMatches that also takes a document without receivedTime.
RenewMatches_OrAbsent(doc, t) ==
    \/ doc.receivedTime = {}
    \/ \E r \in doc.receivedTime : r > t - processingTimeout

\* The filter of signalProgress's findOneAndUpdate, evaluated at instant t.
RenewMatches(doc, t) ==
    \E r \in doc.receivedTime : r > t - processingTimeout

\* The $set {receivedTime: new Date()} of receiveTask, at instant t.
ClaimUpdate(doc, t) == [doc EXCEPT !.receivedTime = {t}]

\* RenewUpdate that writes nothing.
RenewUpdate_NoWrite(doc, t) == doc

\* The $set {receivedTime: new Date()} of signalProgress, at instant t.
RenewUpdate(doc, t) == [doc EXCEPT !.receivedTime = {t}]

\* CompleteUpdate that drops the worker's output.
CompleteUpdate_NoOutput(task, output, t) ==
    LET nextTime == CronNext(task.cronSchedule, t + OneSecond)
        receivedTime == IF task.receivedTime = {} THEN t
                        ELSE CHOOSE r \in task.receivedTime : TRUE
    IN  [op |-> "complete",
         nextScheduledTime |-> nextTime,
         at |-> t,
         entry |-> [receivedTime |-> receivedTime,
                    completedTime |-> t,
                    processingTime |-> t - receivedTime,
                    output |-> {}]]

\* CompleteUpdate that dates the run from the instant of the completion.
CompleteUpdate_ReceivedNow(task, output, t) ==
    LET nextTime == CronNext(task.cronSchedule, t + OneSecond)
    IN  [op |-> "complete",
         nextScheduledTime |-> nextTime,
         at |-> t,
         entry |-> [receivedTime |-> t,
                    completedTime |-> t,
                    processingTime |-> 0,
                    output |-> output]]

\* CompleteUpdate that stores again the due time the document was claimed
\* on.
CompleteUpdate_SameDue(task, output, t) ==
    LET receivedTime == IF task.receivedTime = {} THEN t
                        ELSE CHOOSE r \in task.receivedTime : TRUE
    IN  [op |-> "complete",
         nextScheduledTime |-> task.nextScheduledTime,
         at |-> t,
         entry |-> [receivedTime |-> receivedTime,
                    completedTime |-> t,
                    processingTime |-> t - receivedTime,
                    output |-> output]]

\* The update document completeTask hands to updateTask, at instant t.
CompleteUpdate(task, output, t) ==
    LET nextTime == CronNext(task.cronSchedule, t + OneSecond)
        receivedTime == IF task.receivedTime = {} THEN t
                        ELSE CHOOSE r \in task.receivedTime : TRUE
    IN  [op |-> "complete",
         nextScheduledTime |-> nextTime,
         at |-> t,
         entry |-> [receivedTime |-> receivedTime,
                    completedTime |-> t,
                    processingTime |-> t - receivedTime,
                    output |-> output]]

\* ReleaseUpdate that stores again the due time the document was claimed on.
ReleaseUpdate_SameDue(task, message, t) ==
    LET receivedTime == IF task.receivedTime = {} THEN t
                        ELSE CHOOSE r \in task.receivedTime : TRUE
    IN  [op |-> "release",
         nextScheduledTime |-> task.nextScheduledTime,
         at |-> t,
         entry |-> [receivedTime |-> receivedTime,
                    erroredTime |-> t,
                    processingTime |-> t - receivedTime,
                    errorMessage |-> message]]

\* The update document releaseTask hands to updateTask, at instant t.
ReleaseUpdate(task, message, t) ==
    LET nextTime == CronNext(task.cronSchedule, t + OneSecond)
        receivedTime == IF task.receivedTime = {} THEN t
                        ELSE CHOOSE r \in task.receivedTime : TRUE
    IN  [op |-> "release",
         nextScheduledTime |-> nextTime,
         at |-> t,
         entry |-> [receivedTime |-> receivedTime,
                    erroredTime |-> t,
                    processingTime |-> t - receivedTime,
                    errorMessage |-> message]]

\* The update document scheduleTask hands to updateTask.
ScheduleUpdate(cronSchedule, nextTime) ==
    [op |-> "schedule", cronSchedule |-> cronSchedule, nextScheduledTime |-> nextTime]

\* updateOne({_id}, update) applied to the stored document doc.
ApplyUpdate(doc, update) ==
    CASE update.op = "complete" ->
            [doc EXCEPT !.receivedTime = {},
                        !.nextScheduledTime = update.nextScheduledTime,
                        !.lastCompletedTime = {update.at},
                        !.executionLog = Append(@, update.entry)]
      [] update.op = "release" ->
            [doc EXCEPT !.receivedTime = {},
                        !.nextScheduledTime = update.nextScheduledTime,
                        !.lastErroredTime = {update.at},
                        !.executionLog = Append(@, update.entry)]
      [] update.op = "schedule" ->
            [doc EXCEPT !.cronSchedule = update.cronSchedule,
                        !.nextScheduledTime = update.nextScheduledTime]

\* updateTask's test for the second write, on the document it was handed.
NeedsPop(task) == Len(task.executionLog) >= LogLimit

\* updateOne({_id}, {$pop: {executionLog: -1}}): drops the first element.
PopFirst(doc) ==
    [doc EXCEPT !.executionLog = IF @ = <<>> THEN <<>> ELSE Tail(@)]

\* The instant an executionLog entry ends at.
TerminalTime(entry) ==
    IF "completedTime" \in DOMAIN entry THEN entry.completedTime
    ELSE entry.erroredTime

\* MustReschedule that leaves a leased document alone.
MustReschedule_UnleasedOnly(task, cronSchedule, nextTime) ==
    /\ task.receivedTime = {}
    /\ \/ task.cronSchedule # cronSchedule
       \/ task.nextScheduledTime > nextTime

\* scheduleTask's test for rewriting an existing document.
MustReschedule(task, cronSchedule, nextTime) ==
    \/ task.cronSchedule # cronSchedule
    \/ task.receivedTime = {} /\ task.nextScheduledTime > nextTime

Idle == [pc |-> "idle"]

\* A scheduleTask() that has rejected with error: the caller holds the error.
Rejected(error) == [pc |-> "idle", error |-> error]

\* errorHandler that drops what it is given.
Report_Nothing(reported, error) == reported

\* this.errorHandler(error).
Report(reported, error) == reported \cup {error}

\* startPolling that sets a timer whether or not one is set.
StartTimers_Always(intervalId, n) == n + 1

\* startPolling: the live timers after it, n being live before.
StartTimers(intervalId, n) == IF intervalId THEN n ELSE n + 1

\* stopPolling that forgets the timer without clearing it.
ClearTimers_Forget(intervalId, n) == n

\* stopPolling: the live timers after it, n being live before.
ClearTimers(intervalId, n) == IF intervalId THEN n - 1 ELSE n

\* getMongoCollection that hands out a collection whatever the state of the
\* database.
StoreFault_None(p) == {}

\* getMongoCollection followed by a store operation, in process p: the error
\* it raises, if it raises one.
StoreFault(p) ==
    IF ~databasePromise[p] THEN {NoDatabaseError}
    ELSE IF ~reachable THEN {StoreError}
    ELSE {}

\* ------------------------------------------------------------------ Init
\* A document nine runs old: "task1" on "*/3 * * * * *", run and completed
\* at -29, -26, ..., -5 by an earlier process, and due again since -3.
SeedLog ==
    [k \in 1..(LogLimit - 1) |->
        [receivedTime |-> 3 * k - 32,
         completedTime |-> 3 * k - 32,
         processingTime |-> 0,
         output |-> {}]]

SeedTask ==
    [cronSchedule |-> "*/3 * * * * *",
     nextScheduledTime |-> -3,
     receivedTime |-> {},
     lastErroredTime |-> {},
     lastCompletedTime |-> {-5},
     executionLog |-> SeedLog]

\* The collection is empty, or holds the document left by earlier runs.
Init ==
    /\ now = 0
    /\ store \in {[i \in {} |-> SeedTask], [i \in {"task1"} |-> SeedTask]}
    /\ taskWorkers = [p \in Procs |-> {}]
    /\ pollingIntervalId = [p \in Procs |-> FALSE]
    /\ cycles = [p \in Procs |-> [k \in Slots |-> Idle]]
    /\ calls = [p \in Procs |-> Idle]
    /\ claims = [i \in AllIds |-> 0]
    /\ lapsed = FALSE
    /\ timers = [p \in Procs |-> 0]
    /\ errors = [p \in Procs |-> {}]
    /\ uncaught = [p \in Procs |-> {}]
    /\ databasePromise = [p \in Procs |-> TRUE]
    /\ reachable = TRUE

\* ------------------------------------------------------------ scheduleTask
\* Lines 42-45: register the worker, startPolling, findTask.
ScheduleTask(p, id, cronSchedule) ==
    /\ calls[p].pc = "idle"
    /\ StoreFault(p) = {}
    /\ taskWorkers' = [taskWorkers EXCEPT ![p] = @ \cup {id}]
    /\ timers' = [timers EXCEPT ![p] = StartTimers(pollingIntervalId[p], @)]
    /\ pollingIntervalId' = [pollingIntervalId EXCEPT ![p] = TRUE]
    /\ calls' = [calls EXCEPT ![p] =
            [pc |-> "found", id |-> id, cronSchedule |-> cronSchedule,
             task |-> IF id \in DOMAIN store THEN {store[id]} ELSE {}]]
    /\ UNCHANGED <<now, store, cycles, claims, lapsed,
                 errors, uncaught, databasePromise, reachable>>

\* A scheduleTask that looks the document up before it registers the
\* worker and starts the timer: when findTask throws, neither is done.
ScheduleTaskFails_Unregistered(p, id, cronSchedule) ==
    /\ calls[p].pc = "idle"
    /\ \E error \in StoreFault(p) : calls' = [calls EXCEPT ![p] = Rejected(error)]
    /\ UNCHANGED <<now, store, taskWorkers, pollingIntervalId, cycles, claims,
                 lapsed, timers, errors, uncaught, databasePromise, reachable>>

\* Lines 42-45 when findTask throws: the worker is registered and the timer
\* set, and scheduleTask rejects.
ScheduleTaskFails(p, id, cronSchedule) ==
    /\ calls[p].pc = "idle"
    /\ \E error \in StoreFault(p) : calls' = [calls EXCEPT ![p] = Rejected(error)]
    /\ taskWorkers' = [taskWorkers EXCEPT ![p] = @ \cup {id}]
    /\ timers' = [timers EXCEPT ![p] = StartTimers(pollingIntervalId[p], @)]
    /\ pollingIntervalId' = [pollingIntervalId EXCEPT ![p] = TRUE]
    /\ UNCHANGED <<now, store, cycles, claims, lapsed,
                 errors, uncaught, databasePromise, reachable>>

\* Each process declares its task once, when it starts; the processes are
\* alike, and the first to call scheduleTask is process 1.
FirstDeclaration(p) ==
    /\ taskWorkers[p] = {}
    /\ \A q \in Procs : q < p => taskWorkers[q] # {}

\* insertOne: a second document of the same _id is refused (duplicate key).
InsertTask(id, doc) ==
    IF id \in DOMAIN store
    THEN store
    ELSE [j \in DOMAIN store \cup {id} |-> IF j = id THEN doc ELSE store[j]]

\* Lines 47-70: compute nextTime, then insertTask, updateTask or nothing.
\* An insertOne the collection refuses rejects scheduleTask.
ScheduleWrite(p) ==
    /\ calls[p].pc = "found"
    /\ Parses(calls[p].cronSchedule)
    /\ LET call == calls[p]
           nextTime == CronNext(call.cronSchedule, now)
       IN  \/ /\ call.task = {}
              /\ StoreFault(p) = {}
              /\ store' = InsertTask(call.id, NewTask(call.cronSchedule, nextTime))
              /\ calls' = [calls EXCEPT ![p] =
                      IF call.id \in DOMAIN store
                      THEN Rejected(DuplicateKeyError)
                      ELSE Idle]
           \/ /\ StoreFault(p) = {}
              /\ \E task \in call.task :
                    /\ MustReschedule(task, call.cronSchedule, nextTime)
                    /\ store' = [store EXCEPT ![call.id] =
                            ApplyUpdate(@, ScheduleUpdate(call.cronSchedule, nextTime))]
                    /\ calls' = [calls EXCEPT ![p] =
                            IF NeedsPop(task)
                            THEN [pc |-> "popping", id |-> call.id]
                            ELSE Idle]
           \/ /\ \E task \in call.task :
                    ~MustReschedule(task, call.cronSchedule, nextTime)
              /\ store' = store
              /\ calls' = [calls EXCEPT ![p] = Idle]
    /\ UNCHANGED <<now, taskWorkers, pollingIntervalId, cycles, claims, lapsed,
                 timers, errors, uncaught, databasePromise, reachable>>

\* Line 47 on a schedule cron-parser refuses: scheduleTask rejects before
\* any write.
ScheduleParseFails(p) ==
    /\ calls[p].pc = "found"
    /\ ~Parses(calls[p].cronSchedule)
    /\ calls' = [calls EXCEPT ![p] = Rejected(ParseError)]
    /\ UNCHANGED <<now, store, taskWorkers, pollingIntervalId, cycles, claims, lapsed,
                 timers, errors, uncaught, databasePromise, reachable>>

\* Lines 52 and 60 when the write throws: scheduleTask rejects.
ScheduleWriteFails(p) ==
    /\ calls[p].pc = "found"
    /\ Parses(calls[p].cronSchedule)
    /\ LET call == calls[p]
           nextTime == CronNext(call.cronSchedule, now)
       IN  \/ call.task = {}
           \/ \E task \in call.task : MustReschedule(task, call.cronSchedule, nextTime)
    /\ \E error \in StoreFault(p) : calls' = [calls EXCEPT ![p] = Rejected(error)]
    /\ UNCHANGED <<now, store, taskWorkers, pollingIntervalId, cycles, claims, lapsed,
                 timers, errors, uncaught, databasePromise, reachable>>

\* Lines 235-237, reached from scheduleTask.
SchedulePop(p) ==
    /\ calls[p].pc = "popping"
    /\ StoreFault(p) = {}
    /\ store' = [store EXCEPT ![calls[p].id] = PopFirst(@)]
    /\ calls' = [calls EXCEPT ![p] = Idle]
    /\ UNCHANGED <<now, taskWorkers, pollingIntervalId, cycles, claims, lapsed,
                 timers, errors, uncaught, databasePromise, reachable>>

\* Line 236 when the write throws, reached from scheduleTask.
SchedulePopFails(p) ==
    /\ calls[p].pc = "popping"
    /\ \E error \in StoreFault(p) : calls' = [calls EXCEPT ![p] = Rejected(error)]
    /\ UNCHANGED <<now, store, taskWorkers, pollingIntervalId, cycles, claims, lapsed,
                 timers, errors, uncaught, databasePromise, reachable>>

\* Lines 73-78: clearInterval on the timer pollingIntervalId names.
StopPolling(p) ==
    /\ pollingIntervalId[p]
    /\ timers' = [timers EXCEPT ![p] = ClearTimers(pollingIntervalId[p], @)]
    /\ pollingIntervalId' = [pollingIntervalId EXCEPT ![p] = FALSE]
    /\ UNCHANGED <<now, store, taskWorkers, cycles, calls, claims, lapsed,
                 errors, uncaught, databasePromise, reachable>>

\* -------------------------------------------------------------------- poll
\* The documents receiveTask's filter matches for process p at this instant.
Matching(p) ==
    {i \in DOMAIN store : ClaimMatches(i, store[i], taskWorkers[p], now)}

\* The slot a new poll() invocation of p takes.
FreeSlot(p) ==
    CHOOSE k \in Slots :
        /\ cycles[p][k].pc = "idle"
        /\ \A j \in Slots : cycles[p][j].pc = "idle" => k <= j

\* The timer fires poll(); receiveTask matches nothing and poll returns.
PollNothing(p) ==
    /\ timers[p] > 0
    /\ \E k \in Slots : cycles[p][k].pc = "idle"
    /\ StoreFault(p) = {}
    /\ Matching(p) = {}
    /\ UNCHANGED vars

\* A receiveTask without its try/catch: the store's error rejects poll().
ReceiveTaskFails_Unhandled(p) ==
    /\ timers[p] > 0
    /\ \E k \in Slots : cycles[p][k].pc = "idle"
    /\ \E error \in StoreFault(p) :
            uncaught' = [uncaught EXCEPT ![p] = @ \cup {error}]
    /\ UNCHANGED <<now, store, taskWorkers, pollingIntervalId, cycles, calls, claims,
                 lapsed, timers, errors, databasePromise, reachable>>

\* The timer fires poll(); receiveTask's store operation throws, receiveTask
\* hands the error to the errorHandler and poll returns (lines 219-227).
ReceiveTaskFails(p) ==
    /\ timers[p] > 0
    /\ \E k \in Slots : cycles[p][k].pc = "idle"
    /\ \E error \in StoreFault(p) :
            errors' = [errors EXCEPT ![p] = Report(@, error)]
    /\ UNCHANGED <<now, store, taskWorkers, pollingIntervalId, cycles, calls, claims,
                 lapsed, timers, uncaught, databasePromise, reachable>>

\* A receiveTask that updates every document its filter matches
\* (updateMany) and runs the worker of one of them.
ReceiveTask_UpdateMany(p, id) ==
    /\ timers[p] > 0
    /\ \E k \in Slots : cycles[p][k].pc = "idle"
    /\ StoreFault(p) = {}
    /\ id \in Matching(p)
    /\ store' = [i \in DOMAIN store |->
                    IF i \in Matching(p) THEN ClaimUpdate(store[i], now)
                    ELSE store[i]]
    /\ cycles' = [cycles EXCEPT ![p][FreeSlot(p)] =
            [pc |-> "processing", id |-> id, task |-> store'[id],
             lease |-> now, renewal |-> "none"]]
    /\ claims' = [claims EXCEPT ![id] = @ + 1]
    /\ UNCHANGED <<now, taskWorkers, pollingIntervalId, calls, lapsed,
                 timers, errors, uncaught, databasePromise, reachable>>

\* The timer fires poll(); receiveTask's findOneAndUpdate matches id, sets
\* its receivedTime and returns the document after the update; processTask
\* starts the worker.
ReceiveTask(p, id) ==
    /\ timers[p] > 0
    /\ \E k \in Slots : cycles[p][k].pc = "idle"
    /\ StoreFault(p) = {}
    /\ id \in Matching(p)
    /\ store' = [store EXCEPT ![id] = ClaimUpdate(@, now)]
    /\ cycles' = [cycles EXCEPT ![p][FreeSlot(p)] =
            [pc |-> "processing", id |-> id, task |-> store'[id],
             lease |-> now, renewal |-> "none"]]
    /\ claims' = [claims EXCEPT ![id] = @ + 1]
    /\ UNCHANGED <<now, taskWorkers, pollingIntervalId, calls, lapsed,
                 timers, errors, uncaught, databasePromise, reachable>>

\* The worker calls signalProgress (lines 121-138).
SignalProgress(p, k) ==
    /\ cycles[p][k].pc = "processing"
    /\ StoreFault(p) = {}
    /\ LET id == cycles[p][k].id
       IN  IF RenewMatches(store[id], now)
           THEN /\ store' = [store EXCEPT ![id] = RenewUpdate(@, now)]
                /\ cycles' = [cycles EXCEPT ![p][k].lease = now,
                                            ![p][k].renewal = "renewed"]
           ELSE /\ store' = store
                /\ cycles' = [cycles EXCEPT ![p][k].renewal = "expired"]
    /\ UNCHANGED <<now, taskWorkers, pollingIntervalId, calls, claims, lapsed,
                 timers, errors, uncaught, databasePromise, reachable>>

\* The worker calls signalProgress and the store operation throws: the
\* worker is given the store's error.
SignalProgressFails(p, k) ==
    /\ cycles[p][k].pc = "processing"
    /\ StoreFault(p) # {}
    /\ cycles' = [cycles EXCEPT ![p][k].renewal = "failed"]
    /\ UNCHANGED <<now, store, taskWorkers, pollingIntervalId, calls, claims, lapsed,
                 timers, errors, uncaught, databasePromise, reachable>>

\* The worker returns output; completeTask builds its update (lines 105-106,
\* 173-183).
WorkerReturns(p, k, output) ==
    /\ cycles[p][k].pc = "processing"
    /\ cycles' = [cycles EXCEPT ![p][k] =
            [pc |-> "updating", id |-> @.id, task |-> @.task, lease |-> @.lease,
             output |-> output,
             update |-> CompleteUpdate(@.task, output, now)]]
    /\ UNCHANGED <<now, store, taskWorkers, pollingIntervalId, calls, claims, lapsed,
                 timers, errors, uncaught, databasePromise, reachable>>

\* The worker throws or rejects, with an error of its own or with the one
\* signalProgress gave it; poll hands the error to the errorHandler and
\* releaseTask builds its update (lines 107-109, 142-153).
WorkerThrows(p, k, message) ==
    /\ cycles[p][k].pc = "processing"
    /\ message = ExpiredError => cycles[p][k].renewal = "expired"
    /\ errors' = [errors EXCEPT ![p] = Report(@, message)]
    /\ cycles' = [cycles EXCEPT ![p][k] =
            [pc |-> "updating", id |-> @.id, task |-> @.task, lease |-> @.lease,
             error |-> message,
             update |-> ReleaseUpdate(@.task, message, now)]]
    /\ UNCHANGED <<now, store, taskWorkers, pollingIntervalId, calls, claims, lapsed,
                 timers, uncaught, databasePromise, reachable>>

\* updateTask's first write (line 233), then either its second or the end
\* of the cycle.
UpdateTask(p, k) ==
    /\ cycles[p][k].pc = "updating"
    /\ StoreFault(p) = {}
    /\ LET cycle == cycles[p][k]
       IN  /\ store' = [store EXCEPT ![cycle.id] = ApplyUpdate(@, cycle.update)]
           /\ cycles' = [cycles EXCEPT ![p][k] =
                   IF NeedsPop(cycle.task)
                   THEN [pc |-> "popping", id |-> cycle.id]
                   ELSE Idle]
    /\ UNCHANGED <<now, taskWorkers, pollingIntervalId, calls, claims, lapsed,
                 timers, errors, uncaught, databasePromise, reachable>>

\* updateTask's first write throws: the promise poll returned rejects, and
\* nothing awaits it (lines 106, 109, 233).
UpdateTaskFails(p, k) ==
    /\ cycles[p][k].pc = "updating"
    /\ \E error \in StoreFault(p) :
            uncaught' = [uncaught EXCEPT ![p] = @ \cup {error}]
    /\ cycles' = [cycles EXCEPT ![p][k] = Idle]
    /\ UNCHANGED <<now, store, taskWorkers, pollingIntervalId, calls, claims, lapsed,
                 timers, errors, databasePromise, reachable>>

\* updateTask's second write (line 236).
PopLog(p, k) ==
    /\ cycles[p][k].pc = "popping"
    /\ StoreFault(p) = {}
    /\ store' = [store EXCEPT ![cycles[p][k].id] = PopFirst(@)]
    /\ cycles' = [cycles EXCEPT ![p][k] = Idle]
    /\ UNCHANGED <<now, taskWorkers, pollingIntervalId, calls, claims, lapsed,
                 timers, errors, uncaught, databasePromise, reachable>>

\* updateTask's second write throws (line 236).
PopLogFails(p, k) ==
    /\ cycles[p][k].pc = "popping"
    /\ \E error \in StoreFault(p) :
            uncaught' = [uncaught EXCEPT ![p] = @ \cup {error}]
    /\ cycles' = [cycles EXCEPT ![p][k] = Idle]
    /\ UNCHANGED <<now, store, taskWorkers, pollingIntervalId, calls, claims, lapsed,
                 timers, errors, databasePromise, reachable>>

\* ------------------------------------------------------------------- clock
\* An executor whose settlement is not written yet.
Unsettled(cycle) == cycle.pc \in {"processing", "updating"}

\* No scheduleTask and no updateTask is between two store operations.
NoWritePending ==
    /\ \A p \in Procs : calls[p].pc = "idle"
    /\ \A p \in Procs, k \in Slots : cycles[p][k].pc \in {"idle", "processing"}

\* A second passes.
Tick ==
    /\ now < MaxTime
    /\ NoWritePending
    /\ now' = now + 1
    /\ claims' = [i \in AllIds |-> 0]
    /\ lapsed' = (lapsed \/ \E p \in Procs, k \in Slots :
                        /\ Unsettled(cycles[p][k])
                        /\ now + 1 > cycles[p][k].lease + processingTimeout)
    /\ UNCHANGED <<store, taskWorkers, pollingIntervalId, cycles, calls,
                 timers, errors, uncaught, databasePromise, reachable>>

Next ==
    \/ \E p \in Procs, id \in Ids, cronSchedule \in Schedules :
            FirstDeclaration(p) /\ ScheduleTask(p, id, cronSchedule)
    \/ \E p \in Procs : ScheduleWrite(p)
    \/ \E p \in Procs : SchedulePop(p)
    \/ \E p \in Procs : StopPolling(p)
    \/ \E p \in Procs : PollNothing(p)
    \/ \E p \in Procs, id \in Ids : ReceiveTask(p, id)
    \/ \E p \in Procs, k \in Slots : SignalProgress(p, k)
    \/ \E p \in Procs, k \in Slots, output \in Outputs : WorkerReturns(p, k, output)
    \/ \E p \in Procs, k \in Slots, message \in {WorkerError, ExpiredError} :
            WorkerThrows(p, k, message)
    \/ \E p \in Procs, k \in Slots : UpdateTask(p, k)
    \/ \E p \in Procs, k \in Slots : PopLog(p, k)
    \/ Tick

Spec == Init /\ [][Next]_vars

\* ------------------------------------------- one instance, declared at will
\* One scheduler instance that calls scheduleTask and stopPolling whenever
\* it likes, any number of times, against a database that answers.
Solo == {1}

TimerNext ==
    \/ \E p \in Solo, id \in Ids, cronSchedule \in Schedules :
            ScheduleTask(p, id, cronSchedule)
    \/ \E p \in Solo : ScheduleWrite(p)
    \/ \E p \in Solo : SchedulePop(p)
    \/ \E p \in Solo : StopPolling(p)
    \/ \E p \in Solo : PollNothing(p)
    \/ \E p \in Solo, id \in Ids : ReceiveTask(p, id)
    \/ \E p \in Solo, k \in Slots : SignalProgress(p, k)
    \/ \E p \in Solo, k \in Slots, output \in Outputs : WorkerReturns(p, k, output)
    \/ \E p \in Solo, k \in Slots, message \in {WorkerError, ExpiredError} :
            WorkerThrows(p, k, message)
    \/ \E p \in Solo, k \in Slots : UpdateTask(p, k)
    \/ \E p \in Solo, k \in Slots : PopLog(p, k)
    \/ Tick

TimerSpec == Init /\ [][TimerNext]_vars

\* ---------------------------------------------------- one instance, faults
\* A document ten runs old: SeedTask after one more run, at -2.
FullTask ==
    [SeedTask EXCEPT
        !.nextScheduledTime = 0,
        !.lastCompletedTime = {-2},
        !.executionLog = Append(@, [receivedTime |-> -2,
                                    completedTime |-> -2,
                                    processingTime |-> 0,
                                    output |-> {}])]

\* One scheduler instance, with or without a database configured, that
\* declares its task once, with a schedule cron-parser may refuse, against
\* a database that may stop answering and answer again.
FaultInit ==
    /\ now = 0
    /\ store \in {[i \in {} |-> SeedTask],
                  [i \in {"task1"} |-> SeedTask],
                  [i \in {"task1"} |-> FullTask]}
    /\ taskWorkers = [p \in Procs |-> {}]
    /\ pollingIntervalId = [p \in Procs |-> FALSE]
    /\ cycles = [p \in Procs |-> [k \in Slots |-> Idle]]
    /\ calls = [p \in Procs |-> Idle]
    /\ claims = [i \in AllIds |-> 0]
    /\ lapsed = FALSE
    /\ timers = [p \in Procs |-> 0]
    /\ errors = [p \in Procs |-> {}]
    /\ uncaught = [p \in Procs |-> {}]
    /\ databasePromise \in {[p \in Procs |-> TRUE], [p \in Procs |-> p \notin Solo]}
    /\ reachable = TRUE

\* The database stops answering.
Outage ==
    /\ reachable
    /\ reachable' = FALSE
    /\ UNCHANGED <<now, store, taskWorkers, pollingIntervalId, cycles, calls, claims,
                 lapsed, timers, errors, uncaught, databasePromise>>

\* The database answers again.
Recovery ==
    /\ ~reachable
    /\ reachable' = TRUE
    /\ UNCHANGED <<now, store, taskWorkers, pollingIntervalId, cycles, calls, claims,
                 lapsed, timers, errors, uncaught, databasePromise>>

FaultNext ==
    \/ \E p \in Solo, id \in Ids, cronSchedule \in Schedules \cup {Malformed} :
            FirstDeclaration(p) /\ ScheduleTask(p, id, cronSchedule)
    \/ \E p \in Solo, id \in Ids, cronSchedule \in Schedules \cup {Malformed} :
            FirstDeclaration(p) /\ ScheduleTaskFails(p, id, cronSchedule)
    \/ \E p \in Solo : ScheduleWrite(p)
    \/ \E p \in Solo : ScheduleParseFails(p)
    \/ \E p \in Solo : ScheduleWriteFails(p)
    \/ \E p \in Solo : SchedulePop(p)
    \/ \E p \in Solo : SchedulePopFails(p)
    \/ \E p \in Solo : StopPolling(p)
    \/ \E p \in Solo : PollNothing(p)
    \/ \E p \in Solo : ReceiveTaskFails(p)
    \/ \E p \in Solo, id \in Ids : ReceiveTask(p, id)
    \/ \E p \in Solo, k \in Slots : SignalProgress(p, k)
    \/ \E p \in Solo, k \in Slots : SignalProgressFails(p, k)
    \/ \E p \in Solo, k \in Slots, output \in Outputs : WorkerReturns(p, k, output)
    \/ \E p \in Solo, k \in Slots, message \in {WorkerError, ExpiredError} :
            WorkerThrows(p, k, message)
    \/ \E p \in Solo, k \in Slots : UpdateTask(p, k)
    \/ \E p \in Solo, k \in Slots : UpdateTaskFails(p, k)
    \/ \E p \in Solo, k \in Slots : PopLog(p, k)
    \/ \E p \in Solo, k \in Slots : PopLogFails(p, k)
    \/ Outage
    \/ Recovery
    \/ Tick

FaultSpec == FaultInit /\ [][FaultNext]_vars

\* --------------------------------------------- one instance, several tasks
\* One scheduler instance against a collection that holds the documents of
\* two tasks other instances have run before, one with nine runs logged and
\* one with ten; it declares each of them once, in any order and at any
\* time, the first on the schedule stored and the second on a new one, and
\* polls from then on.
ManyInit ==
    /\ now = 0
    /\ store = [i \in AllIds |-> IF i = "task1" THEN SeedTask ELSE FullTask]
    /\ taskWorkers = [p \in Procs |-> {}]
    /\ pollingIntervalId = [p \in Procs |-> FALSE]
    /\ cycles = [p \in Procs |-> [k \in Slots |-> Idle]]
    /\ calls = [p \in Procs |-> Idle]
    /\ claims = [i \in AllIds |-> 0]
    /\ lapsed = FALSE
    /\ timers = [p \in Procs |-> 0]
    /\ errors = [p \in Procs |-> {}]
    /\ uncaught = [p \in Procs |-> {}]
    /\ databasePromise = [p \in Procs |-> TRUE]
    /\ reachable = TRUE

\* The instance has not declared id yet.
Undeclared(p, id) == id \notin taskWorkers[p]

\* The schedule the instance declares id with.
DeclaredSchedule(id) ==
    IF id = "task1" THEN "*/3 * * * * *" ELSE "*/2 * * * * *"

ManyNext ==
    \/ \E p \in Solo, id \in AllIds :
            Undeclared(p, id) /\ ScheduleTask(p, id, DeclaredSchedule(id))
    \/ \E p \in Solo : ScheduleWrite(p)
    \/ \E p \in Solo : SchedulePop(p)
    \/ \E p \in Solo : PollNothing(p)
    \/ \E p \in Solo, id \in AllIds : ReceiveTask(p, id)
    \/ \E p \in Solo, k \in Slots : SignalProgress(p, k)
    \/ \E p \in Solo, k \in Slots, output \in Outputs : WorkerReturns(p, k, output)
    \/ \E p \in Solo, k \in Slots, message \in {WorkerError, ExpiredError} :
            WorkerThrows(p, k, message)
    \/ \E p \in Solo, k \in Slots : UpdateTask(p, k)
    \/ \E p \in Solo, k \in Slots : PopLog(p, k)
    \/ Tick

ManySpec == ManyInit /\ [][ManyNext]_vars

\* ------------------------------------- one instance, several tasks, no end
\* The schedules repeat every CommonPeriod seconds and the program reads
\* no clock value but to compare it with now, so when the clock would pass
\* MaxTime the model counts every instant from CommonPeriod seconds later.
\* An instant that falls behind Horizon, where every comparison with now
\* has settled, is kept at Horizon, and a log entry that falls behind it is
\* kept as OldEntry: the program reads the length of a log, never an entry.
CommonPeriod == Period("*/2 * * * * *") * Period("*/3 * * * * *")

Horizon == MaxTime - CommonPeriod - processingTimeout

OldEntry ==
    [receivedTime |-> Horizon, completedTime |-> Horizon,
     processingTime |-> 0, output |-> {}]

Rebase(t) ==
    IF t - CommonPeriod <= Horizon THEN Horizon ELSE t - CommonPeriod

RebaseEntry(entry) ==
    IF TerminalTime(entry) - CommonPeriod <= Horizon THEN OldEntry
    ELSE IF "completedTime" \in DOMAIN entry
         THEN [entry EXCEPT !.receivedTime = Rebase(@),
                            !.completedTime = Rebase(@)]
         ELSE [entry EXCEPT !.receivedTime = Rebase(@),
                            !.erroredTime = Rebase(@)]

RebaseTask(doc) ==
    [doc EXCEPT !.nextScheduledTime = Rebase(@),
                !.receivedTime = {Rebase(r) : r \in @},
                !.lastErroredTime = {Rebase(r) : r \in @},
                !.lastCompletedTime = {Rebase(r) : r \in @},
                !.executionLog = [n \in DOMAIN @ |-> RebaseEntry(@[n])]]

\* A second passes at MaxTime.
TickAround ==
    /\ now = MaxTime
    /\ NoWritePending
    /\ now' = MaxTime + 1 - CommonPeriod
    /\ store' = [i \in DOMAIN store |-> RebaseTask(store[i])]
    /\ cycles' = [p \in Procs |-> [k \in Slots |->
            IF cycles[p][k].pc = "processing"
            THEN [cycles[p][k] EXCEPT !.lease = Rebase(@),
                                      !.task = RebaseTask(@)]
            ELSE cycles[p][k]]]
    /\ claims' = [i \in AllIds |-> 0]
    /\ lapsed' = (lapsed \/ \E p \in Procs, k \in Slots :
                        /\ Unsettled(cycles[p][k])
                        /\ now + 1 > cycles[p][k].lease + processingTimeout)
    /\ UNCHANGED <<taskWorkers, pollingIntervalId, calls,
                 timers, errors, uncaught, databasePromise, reachable>>

\* The workers of this instance are quick: each returns nothing, within
\* the second it was started in, and its completion is written within
\* that second.
QuickWorkers == \A p \in Procs, k \in Slots : cycles[p][k].pc = "idle"

RoundNext ==
    \/ \E p \in Solo, id \in AllIds :
            Undeclared(p, id) /\ ScheduleTask(p, id, DeclaredSchedule(id))
    \/ \E p \in Solo : ScheduleWrite(p)
    \/ \E p \in Solo : SchedulePop(p)
    \/ \E p \in Solo : PollNothing(p)
    \/ \E p \in Solo, id \in AllIds : ReceiveTask(p, id)
    \/ \E p \in Solo, k \in Slots : WorkerReturns(p, k, {})
    \/ \E p \in Solo, k \in Slots : UpdateTask(p, k)
    \/ \E p \in Solo, k \in Slots : PopLog(p, k)
    \/ QuickWorkers /\ Tick
    \/ QuickWorkers /\ TickAround

\* The timer keeps firing poll(), so a claim that stays possible is made
\* (of whichever document the store returns); a worker that was started
\* returns; a write that was issued is carried out; and time passes.
RoundSpec ==
    /\ ManyInit
    /\ [][RoundNext]_vars
    /\ \A p \in Solo : WF_vars(\E id \in AllIds : ReceiveTask(p, id))
    /\ \A p \in Solo, k \in Slots :
            /\ WF_vars(WorkerReturns(p, k, {}))
            /\ WF_vars(UpdateTask(p, k))
            /\ WF_vars(PopLog(p, k))
    /\ WF_vars(QuickWorkers /\ (Tick \/ TickAround))

\* ================================================================ properties
\* The poll() invocations in flight, as <<process, slot>>.
InFlight == {c \in Procs \X Slots : cycles[c[1]][c[2]].pc # "idle"}

\* The invocations whose worker is running on document id.
Running(id) ==
    {c \in InFlight : /\ cycles[c[1]][c[2]].pc = "processing"
                      /\ cycles[c[1]][c[2]].id = id}

\* Process p polls for id: its timer is set, it has a worker for id and a
\* poll() invocation to spare.
Polls(p, id) ==
    /\ timers[p] > 0
    /\ id \in taskWorkers[p]
    /\ \E k \in Slots : cycles[p][k].pc = "idle"

\* This step is a claim of document id: a poll() invocation starts and runs
\* the worker of id.
ClaimStep(id) ==
    \E p \in Procs, k \in Slots :
        /\ cycles[p][k].pc = "idle"
        /\ cycles'[p][k].pc = "processing"
        /\ cycles'[p][k].id = id

\* Nothing has run on the document yet.
NeverSettled(id) == store[id].executionLog \in {<<>>, SeedLog}

\* C1: of the claims issued at one instant against one due, unleased
\* document by processes that have its id registered, exactly one obtains
\* the document: a claim against a due, unleased document does not come
\* back empty, at most one claim succeeds on a document per instant, and
\* once one has, the filter of every other process matches nothing for the
\* rest of that instant.
C1_OneClaimPerInstant ==
    \A id \in Ids :
        /\ \A p \in Procs :
              (/\ id \in DOMAIN store
               /\ store[id].nextScheduledTime < now
               /\ store[id].receivedTime = {}
               /\ Polls(p, id)) =>
                  (ENABLED ReceiveTask(p, id)) /\ ~(ENABLED PollNothing(p))
        /\ claims[id] <= 1
        /\ claims[id] = 1 => \A p \in Procs : id \notin Matching(p)

\* C1 witness: the first claim ever on a document has just succeeded in one
\* process while the other process, with the same id registered, polls at
\* the same instant.
C1_Witness ==
    \E id \in DOMAIN store, p \in Procs, q \in Procs :
        /\ p # q
        /\ claims[id] = 1
        /\ NeverSettled(id)
        /\ InFlight \subseteq ({p} \X Slots)
        /\ Cardinality(Running(id)) = 1
        /\ Polls(q, id)
        /\ store[id].nextScheduledTime < now

\* C2: as long as every executor has settled or renewed by the end of its
\* lease (no executor has lapsed), at most one worker invocation per task
\* is in progress, in all processes together.
C2_OneWorkerAtATime ==
    ~lapsed => \A id \in Ids : Cardinality(Running(id)) <= 1

\* C2 witness: a worker has been running for a while inside its lease, the
\* document is still due, and another process polls for it.
C2_Witness ==
    \E id \in DOMAIN store, p \in Procs, q \in Procs, k \in Slots :
        /\ p # q
        /\ ~lapsed
        /\ cycles[p][k].pc = "processing"
        /\ cycles[p][k].id = id
        /\ cycles[p][k].lease < now
        /\ store[id].nextScheduledTime < now
        /\ Polls(q, id)
        /\ Polls(p, id)

\* C3: while a document carries receivedTime = T, set by a claim or by a
\* renewal and not cleared by a completion or release, no claim succeeds on
\* it, the claimant's own later polls included, until the clock has passed
\* T + processingTimeout.
C3_LeaseExcludesClaims ==
    [][\A id \in DOMAIN store :
            ClaimStep(id) =>
                \A T \in store[id].receivedTime : now > T + processingTimeout]_vars

\* C3 witness: the process that holds the lease polls again while its
\* worker runs, the document being due, at the last instant of the lease.
C3_Witness ==
    \E id \in DOMAIN store, p \in Procs, k \in Slots :
        /\ cycles[p][k].pc = "processing"
        /\ cycles[p][k].id = id
        /\ store[id].receivedTime = {now - processingTimeout}
        /\ store[id].nextScheduledTime < now
        /\ Polls(p, id)
        /\ Matching(p) = {}

\* The interval timer keeps starting poll() while pollingIntervalId is set:
\* a claim that stays possible for a process is eventually made.
LiveSpec ==
    Spec /\ \A p \in Procs, id \in Ids : WF_vars(ReceiveTask(p, id))

\* Document id is due and carries a lease older than processingTimeout.
Abandoned(id) ==
    /\ id \in DOMAIN store
    /\ store[id].nextScheduledTime < now
    /\ \E T \in store[id].receivedTime : now > T + processingTimeout

\* C4: when a due document carries a lease set at T that was neither
\* renewed nor cleared, a claim issued after T + processingTimeout by a
\* process that has the id registered obtains a document (this one can be
\* obtained, and the claim cannot come back empty); the claim that obtains
\* it writes a new lease and runs the worker on the document so leased; and
\* while some process polls for it, the abandoned document is eventually
\* claimed again (or settled or rescheduled in the meantime).
C4_AbandonedLeaseReclaimed ==
    /\ [](\A id \in Ids, p \in Procs :
            Abandoned(id) /\ Polls(p, id) =>
                (ENABLED ReceiveTask(p, id)) /\ ~(ENABLED PollNothing(p)))
    /\ [][\A id \in Ids :
            Abandoned(id) /\ ClaimStep(id) =>
                /\ store'[id].receivedTime = {now}
                /\ \E p \in Procs, k \in Slots :
                      /\ cycles[p][k].pc = "idle"
                      /\ cycles'[p][k].pc = "processing"
                      /\ cycles'[p][k].task = store'[id]]_vars
    /\ \A id \in Ids :
            (Abandoned(id) /\ \E p \in Procs : Polls(p, id))
                ~> (~Abandoned(id) \/ ~\E p \in Procs : Polls(p, id))

\* C4 witness: a second worker runs on a document whose first executor
\* holds a lease older than processingTimeout and has neither renewed nor
\* settled.
C4_Witness ==
    \E id \in DOMAIN store, p \in Procs, q \in Procs, k \in Slots, j \in Slots :
        /\ <<p, k>> # <<q, j>>
        /\ cycles[p][k].pc = "processing"
        /\ cycles[p][k].id = id
        /\ cycles[p][k].renewal = "none"
        /\ cycles[p][k].lease + processingTimeout < now
        /\ cycles[q][j].pc = "processing"
        /\ cycles[q][j].id = id
        /\ cycles[q][j].lease = now
        /\ store[id].receivedTime = {now}
        /\ NeverSettled(id)

\* This step is a call of signalProgress by the worker of invocation
\* <<p, k>> that did not throw.
RenewStep(p, k) ==
    /\ cycles[p][k].pc = "processing"
    /\ cycles'[p][k].pc = "processing"
    /\ cycles'[p][k] # cycles[p][k]
    /\ cycles'[p][k].renewal = "renewed"

\* C5: a renewal that succeeds at instant R for a worker inside its lease
\* writes receivedTime = R, and while the worker runs on that lease no claim
\* succeeds on the document before the clock has passed
\* R + processingTimeout, unless a settlement has cleared the lease.
C5_RenewalExtendsLease ==
    [][\A p \in Procs, k \in Slots :
            /\ RenewStep(p, k) /\ now <= cycles[p][k].lease + processingTimeout =>
                  store'[cycles[p][k].id].receivedTime = {now}
            /\ (/\ cycles[p][k].pc = "processing"
                /\ cycles[p][k].renewal = "renewed"
                /\ ClaimStep(cycles[p][k].id)) =>
                  \/ store[cycles[p][k].id].receivedTime = {}
                  \/ now > cycles[p][k].lease + processingTimeout]_vars

\* C5 witness: claimed at T and renewed later at R, the worker still runs,
\* alone, after T + processingTimeout and within R + processingTimeout; the
\* document is due and the other process polls for it and obtains nothing.
C5_Witness ==
    \E id \in DOMAIN store, p \in Procs, q \in Procs, k \in Slots :
        /\ p # q
        /\ InFlight = {<<p, k>>}
        /\ cycles[p][k].pc = "processing"
        /\ cycles[p][k].id = id
        /\ cycles[p][k].renewal = "renewed"
        /\ \E T \in cycles[p][k].task.receivedTime :
              /\ T < cycles[p][k].lease
              /\ T + processingTimeout < now
        /\ now <= cycles[p][k].lease + processingTimeout
        /\ store[id].receivedTime = {cycles[p][k].lease}
        /\ store[id].nextScheduledTime < now
        /\ NeverSettled(id)
        /\ Polls(q, id)
        /\ Matching(q) = {}

\* C6 (as claimed): a call of signalProgress by a worker whose own lease,
\* set by its claim or by its last renewal, is older than processingTimeout
\* throws the lease-expired error and leaves the collection as it was,
\* whether or not another poller has claimed the document since.
C6_ExpiredRenewalFails ==
    [][\A p \in Procs, k \in Slots :
            (/\ cycles[p][k].pc = "processing"
             /\ cycles'[p][k].pc = "processing"
             /\ now > cycles[p][k].lease + processingTimeout) =>
                /\ cycles'[p][k].lease = cycles[p][k].lease
                /\ cycles'[p][k] # cycles[p][k] =>
                      /\ cycles'[p][k].renewal = "expired"
                      /\ store' = store]_vars

\* C7 (as claimed): in every state of the collection, whatever ran before,
\* each executionLog holds at most LogLimit entries.  The log is judged at
\* rest, when no updateTask is between its $push and its $pop.
C7_LogNeverExceedsLimit ==
    NoWritePending =>
        \A id \in DOMAIN store : Len(store[id].executionLog) <= LogLimit

\* This step is the first write of updateTask for invocation <<p, k>>, whose
\* worker ended the way op says.
SettleStep(p, k, op) ==
    /\ cycles[p][k].pc = "updating"
    /\ cycles[p][k].update.op = op
    /\ cycles'[p][k].pc # "updating"

\* C8: when the worker has returned, the write of completeTask clears
\* receivedTime, sets lastCompletedTime to the completion instant, appends to
\* the executionLog exactly one entry, a completed one that carries the
\* worker's output (if any), and stores a nextScheduledTime strictly later
\* than the completion instant.
C8_CompletionTransition ==
    [][\A p \in Procs, k \in Slots :
            SettleStep(p, k, "complete") =>
                LET id == cycles[p][k].id
                    log == store'[id].executionLog
                IN  /\ store'[id].receivedTime = {}
                    /\ store'[id].lastCompletedTime = {now}
                    /\ Len(log) = Len(store[id].executionLog) + 1
                    /\ SubSeq(log, 1, Len(log) - 1) = store[id].executionLog
                    /\ DOMAIN log[Len(log)] =
                          {"receivedTime", "completedTime", "processingTime", "output"}
                    /\ log[Len(log)].completedTime = now
                    /\ log[Len(log)].output = cycles[p][k].output
                    /\ store'[id].nextScheduledTime > now]_vars

\* C8 witness: a worker that ran for a while returned "done" and its
\* completion has just been written as the first entry of the log.
C8_Witness ==
    \E id \in DOMAIN store :
        /\ NoWritePending
        /\ store[id].receivedTime = {}
        /\ store[id].lastCompletedTime = {now}
        /\ Len(store[id].executionLog) = 1
        /\ store[id].executionLog[1].output = {"done"}
        /\ store[id].executionLog[1].completedTime = now
        /\ store[id].executionLog[1].processingTime > 0
        /\ store[id].nextScheduledTime > now

\* C9: when the worker has thrown, the write of releaseTask clears
\* receivedTime, sets lastErroredTime, appends to the executionLog exactly
\* one entry, an errored one that carries the error's message, and stores a
\* nextScheduledTime computed anew from the settlement instant (the
\* schedule's first fire time after that instant plus one second), later
\* than the due time the document was claimed on.
C9_ReleaseTransition ==
    [][\A p \in Procs, k \in Slots :
            SettleStep(p, k, "release") =>
                LET id == cycles[p][k].id
                    log == store'[id].executionLog
                    due == store'[id].nextScheduledTime
                    period == Period(cycles[p][k].task.cronSchedule)
                IN  /\ store'[id].receivedTime = {}
                    /\ store'[id].lastErroredTime = {now}
                    /\ Len(log) = Len(store[id].executionLog) + 1
                    /\ SubSeq(log, 1, Len(log) - 1) = store[id].executionLog
                    /\ DOMAIN log[Len(log)] =
                          {"receivedTime", "erroredTime", "processingTime", "errorMessage"}
                    /\ log[Len(log)].erroredTime = now
                    /\ log[Len(log)].errorMessage = cycles[p][k].error
                    /\ due > now + OneSecond
                    /\ due % period = 0
                    /\ \A t \in (now + OneSecond + 1)..(due - 1) : t % period # 0
                    /\ due > cycles[p][k].task.nextScheduledTime]_vars

\* C9 witness: a worker threw and its release has just been written as the
\* first entry of the log; the document is due again later.
C9_Witness ==
    \E id \in DOMAIN store :
        /\ NoWritePending
        /\ store[id].receivedTime = {}
        /\ store[id].lastErroredTime = {now}
        /\ store[id].lastCompletedTime = {}
        /\ Len(store[id].executionLog) = 1
        /\ store[id].executionLog[1].errorMessage = WorkerError
        /\ store[id].executionLog[1].erroredTime = now
        /\ store[id].nextScheduledTime > now

\* C10: a scheduleTask on an id that has no document inserts one document,
\* under that id, holding the schedule passed, a nextScheduledTime equal to
\* the schedule's first fire time strictly after the instant of the call,
\* no receivedTime and no executionLog.
C10_FirstDeclarationInserts ==
    [][\A id \in Ids :
            (id \notin DOMAIN store /\ id \in DOMAIN store') =>
                \E p \in Procs :
                    LET call == calls[p]
                        doc == store'[id]
                        period == Period(call.cronSchedule)
                    IN  /\ call.pc = "found" /\ call.id = id /\ call.task = {}
                        /\ calls'[p].pc = "idle"
                        /\ DOMAIN store' = DOMAIN store \cup {id}
                        /\ doc.cronSchedule = call.cronSchedule
                        /\ doc.nextScheduledTime > now
                        /\ doc.nextScheduledTime % period = 0
                        /\ \A t \in (now + 1)..(doc.nextScheduledTime - 1) :
                              t % period # 0
                        /\ doc.receivedTime = {}
                        /\ doc.executionLog = <<>>
                        /\ doc.lastErroredTime = {}
                        /\ doc.lastCompletedTime = {}]_vars

\* C10 witness: "task1" was declared on "*/3 * * * * *" at second 1 in an
\* empty collection and is first due at second 3.
C10_Witness ==
    /\ now = 1
    /\ DOMAIN store = {"task1"}
    /\ store["task1"] = NewTask("*/3 * * * * *", 3)
    /\ \A p \in Procs : calls[p].pc = "idle"

\* C11 (as claimed): whatever the interleaving of the scheduleTask calls
\* that declare one id, a call that has ended has left a document of that id
\* in the collection and has resolved: it holds no error.
C11_CreationIdempotent ==
    \A p \in Procs, id \in Ids :
        (id \in taskWorkers[p] /\ calls[p].pc = "idle") =>
            /\ id \in DOMAIN store
            /\ calls[p] = Idle

\* This step is the one in which the scheduleTask call of process p, having
\* read the document, writes it or leaves it.
DeclareStep(p) ==
    /\ calls[p].pc = "found"
    /\ calls'[p] # calls[p]

\* C12 (as claimed): a scheduleTask on an existing document, with the
\* schedule string the document holds (when it is read and when the call
\* decides), changes no field of the document, at any instant, leased or not.
C12_SameScheduleUntouched ==
    [][\A p \in Procs :
            (/\ DeclareStep(p)
             /\ calls[p].id \in DOMAIN store
             /\ store[calls[p].id].cronSchedule = calls[p].cronSchedule
             /\ \E task \in calls[p].task :
                    task.cronSchedule = calls[p].cronSchedule) =>
                store' = store]_vars

\* C13: a scheduleTask on an existing document, with a schedule string
\* other than the one it read in the document, stores the new schedule and,
\* as nextScheduledTime, the new schedule's first fire time after the
\* instant of the call, be that earlier or later than the stored time and
\* the document leased or not.
C13_NewScheduleOverwrites ==
    [][\A p \in Procs :
            (/\ DeclareStep(p)
             /\ \E task \in calls[p].task :
                    task.cronSchedule # calls[p].cronSchedule) =>
                LET doc == store'[calls[p].id]
                    period == Period(calls[p].cronSchedule)
                IN  /\ doc.cronSchedule = calls[p].cronSchedule
                    /\ doc.nextScheduledTime > now
                    /\ doc.nextScheduledTime % period = 0
                    /\ \A t \in (now + 1)..(doc.nextScheduledTime - 1) :
                          t % period # 0]_vars

\* C13 witness: the seeded document, on "*/3 * * * * *", has been claimed
\* and then declared on "*/2 * * * * *" at second 1 while its worker runs:
\* it holds the new schedule and the due time 2, under the lease.
C13_Witness ==
    \E id \in DOMAIN store, p \in Procs, k \in Slots :
        /\ now = 1
        /\ cycles[p][k].pc = "processing"
        /\ cycles[p][k].id = id
        /\ cycles[p][k].task.cronSchedule = "*/3 * * * * *"
        /\ store[id].receivedTime = {cycles[p][k].lease}
        /\ store[id].cronSchedule = "*/2 * * * * *"
        /\ store[id].nextScheduledTime = 2
        /\ store[id].executionLog = SeedLog
        /\ \A q \in Procs : calls[q].pc = "idle"

\* C14 (as claimed): the nextScheduledTime of a document moves to an
\* earlier instant only in a scheduleTask that brings a schedule other than
\* the stored one (the one it read, or the one it overwrites), on a document
\* that is not leased.
C14_DueNeverMovesBack ==
    [][\A id \in DOMAIN store :
            store'[id].nextScheduledTime < store[id].nextScheduledTime =>
                \E p \in Procs :
                    /\ DeclareStep(p)
                    /\ calls[p].id = id
                    /\ \/ calls[p].cronSchedule # store[id].cronSchedule
                       \/ \E task \in calls[p].task :
                              task.cronSchedule # calls[p].cronSchedule
                    /\ store[id].receivedTime = {}]_vars

\* C15: a claim obtains a document only when the clock has passed the
\* nextScheduledTime it holds, and the write that settles a run stores a
\* nextScheduledTime later than the instant of the write, so that no poll
\* obtains the document at that instant: the next claim waits for the clock
\* to pass the stored time.
C15_NoRunBeforeDue ==
    [][\A id \in DOMAIN store :
            /\ ClaimStep(id) => store[id].nextScheduledTime < now
            /\ \A p \in Procs, k \in Slots :
                  (/\ cycles[p][k].pc = "updating"
                   /\ cycles[p][k].id = id
                   /\ cycles'[p][k].pc # "updating") =>
                        /\ store'[id].nextScheduledTime > now
                        /\ \A q \in Procs :
                              ~ClaimMatches(id, store'[id], taskWorkers'[q], now')]_vars

\* C15 witness: a run claimed at second 0 and completed at second 1 is
\* settled, the document is due again at 3, the clock stands at 3, not
\* past it, and a process polls for the document and obtains nothing.
C15_Witness ==
    \E id \in DOMAIN store, p \in Procs :
        /\ now = 3
        /\ store[id].lastCompletedTime = {1}
        /\ store[id].receivedTime = {}
        /\ store[id].nextScheduledTime = 3
        /\ Len(store[id].executionLog) > 0
        /\ store[id].executionLog[Len(store[id].executionLog)].receivedTime = 0
        /\ Polls(p, id)
        /\ Matching(p) = {}
        /\ InFlight = {}

\* C16 (as claimed): a process has at most one poll() invocation in flight,
\* from its claim to the end of its settlement.
C16_CyclesNeverOverlap ==
    \A p \in Procs : Cardinality({c \in InFlight : c[1] = p}) <= 1

\* C17: startPolling on a running loop sets no second timer, so a process
\* has one live timer when pollingIntervalId is set and none when it is
\* not; a poll cycle starts only while pollingIntervalId is set, hence none
\* after stopPolling until a scheduleTask starts the loop again; stopPolling
\* touches no cycle in flight, and a cycle in flight goes on whether or not
\* the loop is stopped: its worker can end and its settlement be written.
C17_StartOnceStopClean ==
    /\ [](\A p \in Procs :
            /\ timers[p] = (IF pollingIntervalId[p] THEN 1 ELSE 0)
            /\ \A k \in Slots :
                  /\ cycles[p][k].pc = "processing" =>
                        ENABLED WorkerReturns(p, k, {})
                  /\ cycles[p][k].pc = "updating" => ENABLED UpdateTask(p, k)
                  /\ cycles[p][k].pc = "popping" => ENABLED PopLog(p, k))
    /\ [][\A p \in Procs :
            /\ (\E k \in Slots : /\ cycles[p][k].pc = "idle"
                                 /\ cycles'[p][k].pc # "idle") =>
                  pollingIntervalId[p]
            /\ (pollingIntervalId[p] /\ ~pollingIntervalId'[p]) =>
                  /\ cycles' = cycles
                  /\ store' = store]_vars

\* C17 witness: the loop of a process that has declared its task is stopped,
\* no timer is live, and a cycle claimed earlier is in flight, its worker
\* having returned and its settlement about to be written.
C17_Witness ==
    \E p \in Procs, k \in Slots :
        /\ taskWorkers[p] # {}
        /\ ~pollingIntervalId[p]
        /\ timers[p] = 0
        /\ cycles[p][k].pc = "updating"
        /\ cycles[p][k].lease < now
        /\ store[cycles[p][k].id].receivedTime = {cycles[p][k].lease}

\* This step is a call of scheduleTask by process p.
DeclareCall(p) ==
    /\ calls[p].pc = "idle"
    /\ calls'[p] # calls[p]

\* C18: a scheduleTask called with no database configured, or while the
\* database does not answer, rejects with the error of getMongoCollection
\* or of the driver; one called with a schedule cron-parser refuses rejects
\* with the parser's error; none of them writes to the collection, and a
\* call that has rejected takes no further step.  (The worker it registered
\* and the timer it set stay, and the polls of that timer go on.)
C18_FailedDeclareWritesNothing ==
    [][\A p \in Procs :
            /\ (DeclareCall(p) /\ ~databasePromise[p]) =>
                  calls'[p] = Rejected(NoDatabaseError) /\ store' = store
            /\ (DeclareCall(p) /\ databasePromise[p] /\ ~reachable) =>
                  calls'[p] = Rejected(StoreError) /\ store' = store
            /\ (DeclareStep(p) /\ ~Parses(calls[p].cronSchedule)) =>
                  calls'[p] = Rejected(ParseError) /\ store' = store
            /\ "error" \in DOMAIN calls[p] => calls'[p] = calls[p]]_vars

\* C18 witness: a scheduleTask with a schedule cron-parser refuses has
\* rejected with the parser's error, and the document it was called on is
\* as it was.
C18_Witness ==
    \E p \in Procs :
        /\ calls[p] = Rejected(ParseError)
        /\ DOMAIN store = {"task1"}
        /\ store["task1"] = SeedTask

\* C19 (as claimed): a completion or release write that fails ends its poll
\* cycle with the failure handed to the errorHandler: no rejection of
\* poll() is left unhandled.
C19_SettlementFailureHandled ==
    \A p \in Procs : uncaught[p] = {}

\* C20: when the worker throws, its error is handed to the errorHandler in
\* the step that builds the release, before the release is written; the
\* error stays reported whatever becomes of the write.
C20_WorkerErrorReportedFirst ==
    /\ [][\A p \in Procs :
            /\ errors[p] \subseteq errors'[p]
            /\ \A k \in Slots :
                  (/\ cycles[p][k].pc = "processing"
                   /\ cycles'[p][k].pc = "updating"
                   /\ cycles'[p][k].update.op = "release") =>
                        /\ cycles'[p][k].error \in errors'[p]
                        /\ store' = store]_vars
    /\ [](\A p \in Procs, k \in Slots :
            (cycles[p][k].pc = "updating" /\ cycles[p][k].update.op = "release") =>
                cycles[p][k].error \in errors[p])

\* C20 witness: a worker threw, its release write failed (the document
\* still holds the lease and the log it had) and the errorHandler holds the
\* worker's error.
C20_Witness ==
    \E p \in Procs, id \in DOMAIN store :
        /\ InFlight = {}
        /\ WorkerError \in errors[p]
        /\ uncaught[p] = {StoreError}
        /\ store[id].executionLog = SeedLog
        /\ store[id].receivedTime # {}

\* C21: a poll whose claim cannot reach the store (no database configured,
\* or the database does not answer) hands the store's error to the
\* errorHandler and ends: it writes nothing, claims nothing, starts no
\* worker and leaves the timer set; no claim is made while the fault lasts,
\* the failure never escapes poll(), and once the store answers the timer's
\* next poll claims or finds nothing as usual.
C21_ClaimFailureReported ==
    /\ [][\A p \in Procs :
            /\ (errors'[p] # errors[p] /\ cycles' = cycles) =>
                  /\ StoreFault(p) # {}
                  /\ errors'[p] = errors[p] \cup StoreFault(p)
                  /\ store' = store
                  /\ claims' = claims
                  /\ timers' = timers
                  /\ pollingIntervalId' = pollingIntervalId
            /\ uncaught'[p] # uncaught[p] =>
                  \E k \in Slots : /\ cycles[p][k].pc \in {"updating", "popping"}
                                   /\ cycles'[p][k].pc = "idle"
            /\ (\E k \in Slots : /\ cycles[p][k].pc = "idle"
                                 /\ cycles'[p][k].pc = "processing") =>
                  StoreFault(p) = {}]_vars
    /\ [](\A p \in Procs :
            (timers[p] > 0 /\ \E k \in Slots : cycles[p][k].pc = "idle") =>
                IF StoreFault(p) # {}
                THEN /\ ENABLED ReceiveTaskFails(p)
                     /\ ~ENABLED PollNothing(p)
                     /\ \A id \in Ids : ~ENABLED ReceiveTask(p, id)
                ELSE /\ ~ENABLED ReceiveTaskFails(p)
                     /\ \/ ENABLED PollNothing(p)
                        \/ \E id \in Ids : ENABLED ReceiveTask(p, id))

\* C21 witness: a claim failed while the database did not answer and its
\* error is with the errorHandler; the document is as it was before, no
\* cycle is in flight, the database answers again and the timer's next poll
\* can claim the document.
C21_Witness ==
    \E p \in Procs, id \in DOMAIN store :
        /\ StoreError \in errors[p]
        /\ uncaught[p] = {}
        /\ InFlight = {}
        /\ store[id] = SeedTask
        /\ reachable
        /\ timers[p] > 0
        /\ ENABLED ReceiveTask(p, id)

\* C27: the document a claim hands to its poll() carries the receivedTime
\* that very claim wrote, and keeps it whatever signalProgress or other
\* claimants write to the collection afterwards; the entry its settlement
\* appends carries that receivedTime, and every entry's processingTime is
\* its terminal instant minus its receivedTime, never negative.
C27_EntryDatedFromClaim ==
    /\ [][\A p \in Procs, k \in Slots :
            /\ (cycles[p][k].pc = "idle" /\ cycles'[p][k].pc = "processing") =>
                  /\ store'[cycles'[p][k].id].receivedTime = {now}
                  /\ cycles'[p][k].task.receivedTime = {now}
            /\ (cycles[p][k].pc = "processing" /\ cycles'[p][k].pc # "idle") =>
                  cycles'[p][k].task = cycles[p][k].task
            /\ (\E op \in {"complete", "release"} : SettleStep(p, k, op)) =>
                  LET log == store'[cycles[p][k].id].executionLog
                  IN  /\ Len(log) = Len(store[cycles[p][k].id].executionLog) + 1
                      /\ {log[Len(log)].receivedTime} = cycles[p][k].task.receivedTime
                      /\ TerminalTime(log[Len(log)]) = now]_vars
    /\ [](\A id \in DOMAIN store :
            \A n \in 1..Len(store[id].executionLog) :
                LET entry == store[id].executionLog[n]
                IN  /\ entry.processingTime = TerminalTime(entry) - entry.receivedTime
                    /\ entry.processingTime >= 0)

\* C27 witness: a run that was claimed, renewed and then completed inside
\* its renewed lease has just been logged: the entry dates the run from the
\* claim, more than processingTimeout before its end.
C27_Witness ==
    \E id \in DOMAIN store :
        LET log == store[id].executionLog
        IN  /\ ~lapsed
            /\ NoWritePending
            /\ log # <<>>
            /\ log[Len(log)].receivedTime >= 0
            /\ TerminalTime(log[Len(log)]) = now
            /\ log[Len(log)].processingTime > processingTimeout

\* The last run logged on document id failed, no poll() invocation holds
\* the document, and the clock has passed the due time stored since.
Released(id) ==
    /\ id \in DOMAIN store
    /\ store[id].executionLog # <<>>
    /\ "erroredTime" \in
            DOMAIN store[id].executionLog[Len(store[id].executionLog)]
    /\ \A c \in InFlight : cycles[c[1]][c[2]].id # id
    /\ store[id].nextScheduledTime < now

\* C26: the release of a failed run leaves the document without a lease
\* and with the schedule it was claimed on; once the clock has passed the
\* due time stored since, a poll of any process that has the id registered
\* obtains the document (the claim cannot come back empty); and while some
\* process polls for it the document is eventually claimed and its worker
\* run again.
C26_FailureKeepsTaskSchedulable ==
    /\ [][\A p \in Procs, k \in Slots :
            SettleStep(p, k, "release") =>
                /\ store'[cycles[p][k].id].receivedTime = {}
                /\ store'[cycles[p][k].id].cronSchedule =
                        store[cycles[p][k].id].cronSchedule]_vars
    /\ [](\A id \in Ids, p \in Procs :
            Released(id) /\ Polls(p, id) =>
                (ENABLED ReceiveTask(p, id)) /\ ~(ENABLED PollNothing(p)))
    /\ \A id \in Ids :
            (Released(id) /\ \E p \in Procs : Polls(p, id))
                ~> (\/ \E c \in Running(id) : cycles[c[1]][c[2]].lease = now
                    \/ ~Released(id)
                    \/ ~\E p \in Procs : Polls(p, id))

\* C26 witness: the last run logged on the document failed, and a worker
\* runs on it again, claimed after the failure was written and after the
\* due time the release stored.
C26_Witness ==
    \E id \in DOMAIN store : \E c \in Running(id) :
        LET log == store[id].executionLog
        IN  /\ log # <<>>
            /\ "erroredTime" \in DOMAIN log[Len(log)]
            /\ store[id].lastErroredTime = {log[Len(log)].erroredTime}
            /\ Running(id) = {c}
            /\ \A d \in InFlight : d = c
            /\ cycles[c[1]][c[2]].task.executionLog = log
            /\ cycles[c[1]][c[2]].task.nextScheduledTime > log[Len(log)].erroredTime

\* C28 (as claimed): when an executor whose lease lapsed and was taken over
\* writes its completion or release while the later executor is still
\* inside the lease it holds on the document, the write leaves that lease
\* in place.
C28_StaleSettlementKeepsLease ==
    [][\A p \in Procs, k \in Slots, q \in Procs, j \in Slots :
            (/\ <<p, k>> # <<q, j>>
             /\ \E op \in {"complete", "release"} : SettleStep(p, k, op)
             /\ Unsettled(cycles[q][j])
             /\ cycles[q][j].id = cycles[p][k].id
             /\ cycles[p][k].lease < cycles[q][j].lease
             /\ store[cycles[q][j].id].receivedTime = {cycles[q][j].lease}
             /\ now <= cycles[q][j].lease + processingTimeout) =>
                store'[cycles[q][j].id].receivedTime = {cycles[q][j].lease}]_vars

\* C29 (as claimed): no write of a scheduleTask on an existing document
\* changes the document's executionLog, receivedTime, lastErroredTime or
\* lastCompletedTime, whether or not the schedule changes and however long
\* the log is.
C29_DeclareKeepsHistory ==
    [][\A p \in Procs :
            (/\ calls[p].pc \in {"found", "popping"}
             /\ calls'[p] # calls[p]
             /\ calls[p].id \in DOMAIN store) =>
                LET id == calls[p].id
                IN  /\ store'[id].executionLog = store[id].executionLog
                    /\ store'[id].receivedTime = store[id].receivedTime
                    /\ store'[id].lastErroredTime = store[id].lastErroredTime
                    /\ store'[id].lastCompletedTime = store[id].lastCompletedTime]_vars

\* C30 (as claimed): the nextScheduledTime a document holds is a fire time
\* of the cronSchedule the document holds, whatever declarations and
\* settlements were written and in whatever order.  The seeded document is
\* due on a fire time of its schedule, too.
C30_DueFollowsStoredSchedule ==
    \A id \in DOMAIN store :
        store[id].nextScheduledTime % Period(store[id].cronSchedule) = 0

\* C22 (as claimed): when a process claims a document, the completion or
\* release of every earlier claim of that document by the same process has
\* been written.
C22_OutcomeBeforeNextClaim ==
    [][\A p \in Procs, k \in Slots :
            (cycles[p][k].pc = "idle" /\ cycles'[p][k].pc = "processing") =>
                \A j \in Slots :
                    Unsettled(cycles[p][j]) =>
                        cycles[p][j].id # cycles'[p][k].id]_vars

\* C23: a claim obtains a document only if the claiming process has a
\* worker registered under its _id, its nextScheduledTime is strictly
\* before the instant of the claim, and it carries no receivedTime or one
\* strictly older than that instant minus processingTimeout; so a worker
\* only ever runs in a process that declared its task.
C23_ClaimOnlyDeclaredAndDue ==
    /\ [][\A p \in Procs, k \in Slots :
            (cycles[p][k].pc = "idle" /\ cycles'[p][k].pc = "processing") =>
                LET id == cycles'[p][k].id
                IN  /\ id \in taskWorkers[p]
                    /\ store[id].nextScheduledTime < now
                    /\ \A T \in store[id].receivedTime :
                          T < now - processingTimeout]_vars
    /\ [](\A p \in Procs, k \in Slots :
            cycles[p][k].pc # "idle" => cycles[p][k].id \in taskWorkers[p])

\* C23 witness: the instance has declared one task only and runs it; the
\* document of the other task, due and without a lease, lies in the
\* collection, and the polls of the instance obtain nothing.
C23_Witness ==
    \E p \in Procs, k \in Slots, other \in DOMAIN store :
        /\ cycles[p][k].pc = "processing"
        /\ cycles[p][k].lease < now
        /\ taskWorkers[p] = {cycles[p][k].id}
        /\ other \notin taskWorkers[p]
        /\ store[other].nextScheduledTime < now
        /\ store[other].receivedTime = {}
        /\ timers[p] > 0
        /\ \E j \in Slots : cycles[p][j].pc = "idle"
        /\ Matching(p) = {}

\* C24: a poll that claims writes one document only, and only its
\* receivedTime, and starts one invocation only, whatever else its filter
\* matches; and when the filter of a process matches nothing, the only poll
\* the process can make is the one that returns at once, leaving the
\* collection and the invocations in flight as they are.
C24_OneDocumentPerPoll ==
    /\ [][\A p \in Procs, k \in Slots :
            (cycles[p][k].pc = "idle" /\ cycles'[p][k].pc = "processing") =>
                LET id == cycles'[p][k].id
                IN  /\ store' = [store EXCEPT ![id].receivedTime = {now}]
                    /\ cycles' = [cycles EXCEPT ![p][k] = cycles'[p][k]]]_vars
    /\ [](\A p \in Procs :
            (/\ timers[p] > 0
             /\ \E k \in Slots : cycles[p][k].pc = "idle"
             /\ Matching(p) = {}) =>
                /\ ENABLED PollNothing(p)
                /\ \A id \in AllIds : ~ENABLED ReceiveTask(p, id))

\* C24 witness: two tasks the instance has declared were due together and
\* unleased; a poll has just claimed one of them, and the other is still
\* there for the next poll.
C24_Witness ==
    \E p \in Procs, k \in Slots, other \in DOMAIN store :
        /\ taskWorkers[p] = AllIds
        /\ InFlight = {<<p, k>>}
        /\ cycles[p][k].pc = "processing"
        /\ cycles[p][k].lease = now
        /\ other # cycles[p][k].id
        /\ store[other].receivedTime = {}
        /\ other \in Matching(p)
        /\ cycles[p][k].task.nextScheduledTime < now

C31_RenewalNeverCreatesLease ==
    [][\A p \in Procs, k \in Slots :
            /\ (/\ cycles[p][k].pc = "processing"
                /\ cycles'[p][k].pc = "processing"
                /\ cycles'[p][k] # cycles[p][k]
                /\ store[cycles[p][k].id].receivedTime = {}) =>
                    /\ cycles'[p][k].renewal = "expired"
                    /\ cycles'[p][k].lease = cycles[p][k].lease
                    /\ store' = store
            /\ \A id \in DOMAIN store :
                  (/\ id \in DOMAIN store'
                   /\ store[id].receivedTime = {}
                   /\ store'[id].receivedTime # {}) => ClaimStep(id)]_vars

\* C31 witness: a worker, still inside the lease it last wrote, has called
\* signalProgress after another executor's settlement removed that lease;
\* the call threw, and the document carries no receivedTime.
C31_Witness ==
    \E p \in Procs, k \in Slots :
        LET id == cycles[p][k].id
            log == store[id].executionLog
        IN  /\ cycles[p][k].pc = "processing"
            /\ cycles[p][k].renewal = "expired"
            /\ now <= cycles[p][k].lease + processingTimeout
            /\ store[id].receivedTime = {}
            /\ log # <<>>
            /\ TerminalTime(log[Len(log)]) >= cycles[p][k].lease
            /\ log[Len(log)].receivedTime < cycles[p][k].lease

\* C32: every call of scheduleTask registers its worker and sets the timer
\* (if none is set) in its first step, whether findTask then answers or
\* throws; a rejection that comes later, from the parser or from the write,
\* undoes neither; so a process whose call was rejected has a worker
\* registered, and while its timer is set and the store answers, its poll
\* obtains a stored document of a registered id that is due and carries no
\* lease.
C32_FailedDeclareStillPolls ==
    /\ [][\A p \in Procs :
            /\ DeclareCall(p) =>
                  /\ taskWorkers'[p] # {}
                  /\ taskWorkers[p] \subseteq taskWorkers'[p]
                  /\ pollingIntervalId'[p]
                  /\ timers'[p] = 1
                  /\ store' = store
            /\ (DeclareStep(p) /\ "error" \in DOMAIN calls'[p]) =>
                  /\ taskWorkers'[p] = taskWorkers[p]
                  /\ pollingIntervalId'[p] = pollingIntervalId[p]
                  /\ timers'[p] = timers[p]]_vars
    /\ [](\A p \in Procs :
            "error" \in DOMAIN calls[p] =>
                /\ taskWorkers[p] # {}
                /\ \A id \in taskWorkers[p] :
                      (/\ timers[p] > 0
                       /\ \E k \in Slots : cycles[p][k].pc = "idle"
                       /\ StoreFault(p) = {}
                       /\ id \in DOMAIN store
                       /\ store[id].nextScheduledTime < now
                       /\ store[id].receivedTime = {}) =>
                          ENABLED ReceiveTask(p, id))

\* C32 witness: the scheduleTask of a process was rejected because the
\* database did not answer; the process has claimed the document stored
\* under the id it declared and runs its worker on it.
C32_Witness ==
    \E p \in Procs, k \in Slots :
        /\ calls[p] = Rejected(StoreError)
        /\ cycles[p][k].pc = "processing"
        /\ cycles[p][k].id \in taskWorkers[p]
        /\ store[cycles[p][k].id].receivedTime = {cycles[p][k].lease}
        /\ store[cycles[p][k].id].cronSchedule = SeedTask.cronSchedule
        /\ store[cycles[p][k].id].executionLog = SeedLog

=============================================================================
